---- MODULE Spec2Model ----
(***************************************************************************)
(* StraySafe API: the JSON-file record store and the request handlers of   *)
(* the two server programs of the repository,                              *)
(*   "server"  = src/server/server.js   (promise based fs, handlers await) *)
(*   "part000" = src/unnamed/part_000   (synchronous fs, handlers atomic)  *)
(*                                                                         *)
(* Strings are sequences of symbols.  Free text is spelled symbol by       *)
(* symbol (<<"P","a">>); an enumeration word is one symbol (<<"dog">>).    *)
(* The JavaScript value undefined (a property or parameter that is not     *)
(* there) is the one-symbol sequence Undefined; null is Null.              *)
(***************************************************************************)
EXTENDS Integers, Sequences, FiniteSets, TLC

VARIABLES variant, traffic, file, now, issued, nreq, faults, slot

vars == <<variant, traffic, file, now, issued, nreq, faults, slot>>

(***************************************************************************)
(* Bounds of the model.                                                    *)
(***************************************************************************)
MaxRequests == 3      \* requests received in one behaviour of "few" traffic
MaxWideRequests == 2  \* requests received in one behaviour of "wide" traffic
MaxClock == 3         \* largest reading of the millisecond clock
MaxFaults == 1        \* damages done to the data file from outside

Slots == {1, 2}       \* requests that can be in flight together

Variants == {"server", "part000"}

\* what the clients send in a behaviour: requests of a few kinds, or fewer
\* requests of every kind
Traffics == {"few", "wide"}

(***************************************************************************)
(* JavaScript values                                                       *)
(***************************************************************************)
Undefined == <<"undefined">>
Null == <<"null">>
EmptyString == <<>>

\* a value used as a condition: undefined, null and '' are falsy
Truthy(v) == v # Undefined /\ v # Null /\ v # EmptyString

\* a || b
OrElse(a, b) == IF Truthy(a) THEN a ELSE b

\* String.prototype.toLowerCase, symbol by symbol
LowerSym(c) ==
    CASE c = "A" -> "a"
      [] c = "B" -> "b"
      [] c = "P" -> "p"
      [] OTHER -> c

toLowerCase(s) == [i \in 1..Len(s) |-> LowerSym(s[i])]

\* String.prototype.includes: t occurs in s as a contiguous run
includes(s, t) ==
    \E k \in 0..(Len(s) - Len(t)) : \A i \in 1..Len(t) : s[k + i] = t[i]

\* String.prototype.trim: leading and trailing blanks removed
RECURSIVE trimLeft(_)
trimLeft(s) == IF s # <<>> /\ Head(s) = " " THEN trimLeft(Tail(s)) ELSE s

RECURSIVE trimRight(_)
trimRight(s) ==
    IF s # <<>> /\ s[Len(s)] = " " THEN trimRight(SubSeq(s, 1, Len(s) - 1)) ELSE s

trim(s) == trimRight(trimLeft(s))

(***************************************************************************)
(* express-validator rules.  A field that is absent is validated as ''.    *)
(***************************************************************************)
Str(v) == IF v = Undefined \/ v = Null THEN EmptyString ELSE v

Digits == {"1", "2"}

\* isEmail: one "@" with a non-empty local part and a non-empty domain
isEmail(v) ==
    LET s == Str(v) IN
    /\ \E i \in 2..(Len(s) - 1) : s[i] = "@"
    /\ Cardinality({i \in 1..Len(s) : s[i] = "@"}) = 1
    /\ \A i \in 1..Len(s) : s[i] # " "

\* isMobilePhone: digits, with an optional leading "+"
isMobilePhone(v) ==
    LET s == Str(v) IN
    /\ s # <<>>
    /\ s[Len(s)] \in Digits
    /\ \A i \in 1..Len(s) : s[i] \in Digits \/ (i = 1 /\ s[i] = "+")

\* matches(/^[\d\s\-\+\(\)]+$/)
matchesPhone(v) ==
    LET s == Str(v) IN
    /\ s # <<>>
    /\ \A i \in 1..Len(s) : s[i] \in Digits \union {" ", "-", "+", "(", ")"}

notEmpty(v) == Str(v) # <<>>

isIn(v, words) == Str(v) \in words

isLength(v, min, max) == Len(Str(v)) >= min /\ Len(Str(v)) <= max

TypeWords == {<<"dog">>, <<"cat">>, <<"other">>}
StatusWords == {<<"found">>, <<"lost">>, <<"rescued">>}
StatusWordsPart == {<<"found">>, <<"lost">>, <<"adopted">>, <<"reunited">>}
SizeWords == {<<"small">>, <<"medium">>, <<"large">>}

MaxBreedLen == 100
MaxColorLen == 50
MaxLocationLen == 200
MaxDescriptionLen == 1000
MaxNameLen == 100

\* the fields a request body is made of
Fields ==
    {"type", "status", "location", "description", "breed", "color", "size",
     "age", "contactName", "contactPhone", "contactEmail"}

\* server.js: the fields whose rule is violated
validateAnimalReport(b) ==
    {f \in Fields :
        \/ f = "type" /\ ~isIn(b.type, TypeWords)
        \/ f = "status" /\ ~isIn(b.status, StatusWords)
        \/ f = "location" /\ ~notEmpty(b.location)
        \/ f = "description" /\ ~notEmpty(b.description)
        \/ f = "contactName" /\ ~notEmpty(b.contactName)
        \/ f = "contactPhone" /\ ~isMobilePhone(b.contactPhone)
        \/ f = "contactEmail" /\ ~isEmail(b.contactEmail)}

\* part_000: .trim() is a sanitizer, it rewrites the field in req.body
Trimmed(v) == IF v = Undefined THEN v ELSE trim(v)

sanitize(b) ==
    [b EXCEPT !.breed = Trimmed(@), !.color = trim(Str(@)),
              !.location = trim(Str(@)), !.description = Trimmed(@),
              !.contactName = trim(Str(@)), !.contactPhone = trim(Str(@))]

\* part_000: the fields whose rule is violated, on the sanitized body
animalValidation(b) ==
    LET c == sanitize(b) IN
    {f \in Fields :
        \/ f = "type" /\ ~isIn(c.type, TypeWords)
        \/ f = "breed" /\ c.breed # Undefined /\ ~isLength(c.breed, 1, MaxBreedLen)
        \/ f = "color" /\ ~isLength(c.color, 1, MaxColorLen)
        \/ f = "size" /\ ~isIn(c.size, SizeWords)
        \/ f = "location" /\ ~isLength(c.location, 1, MaxLocationLen)
        \/ f = "description" /\ c.description # Undefined
                             /\ ~isLength(c.description, 0, MaxDescriptionLen)
        \/ f = "contactName" /\ ~isLength(c.contactName, 1, MaxNameLen)
        \/ f = "contactPhone" /\ ~matchesPhone(c.contactPhone)
        \/ f = "contactEmail" /\ ~isEmail(c.contactEmail)
        \/ f = "status" /\ c.status # Undefined /\ ~isIn(c.status, StatusWordsPart)}

\* validationResult(req).array(), and req.body as the handler then sees it
ValidationErrors(v, b) ==
    IF v = "server" THEN validateAnimalReport(b) ELSE animalValidation(b)

BodySeen(v, b) == IF v = "server" THEN b ELSE sanitize(b)

(***************************************************************************)
(* multer: upload.single, its fileFilter and its size limit                *)
(***************************************************************************)
NoFile == [present |-> FALSE, major |-> "", sub |-> "", ext |-> "", large |-> FALSE]

Png == [present |-> TRUE, major |-> "image", sub |-> "png", ext |-> "png", large |-> FALSE]

PngLarge == [Png EXCEPT !.large = TRUE]

Pdf ==
    [present |-> TRUE, major |-> "application", sub |-> "pdf", ext |-> "pdf",
     large |-> FALSE]

AllowedTypes == {"jpeg", "jpg", "png", "gif"}

\* server.js: both the extension and the mime type name an allowed format
fileFilter(u) == u.sub \in AllowedTypes /\ u.ext \in AllowedTypes

\* part_000: the mime type starts with image/
fileFilterPart(u) == u.major = "image"

\* what upload.single hands on: "ok", or the error it passes to next(err)
uploadSingle(v, u) ==
    IF ~u.present THEN "ok"
    ELSE IF ~(IF v = "server" THEN fileFilter(u) ELSE fileFilterPart(u))
         THEN "Only image files are allowed"
    ELSE IF u.large THEN "LIMIT_FILE_SIZE"
    ELSE "ok"

\* the error handling middleware: the status it answers with
errorMiddleware(err) == IF err = "LIMIT_FILE_SIZE" THEN 400 ELSE 500

\* `/uploads/${req.file.filename}`, n standing for the unique suffix
uploadPath(n) == <<"/uploads/", n>>

(***************************************************************************)
(* The data file and the records in it                                     *)
(***************************************************************************)
NoTime == 0     \* a record without the lastUpdated property

Uuid(n) == <<"uuid", n>>

\* readData: the parsed array, [] when the file is missing or does not parse
readData(f) == IF f.kind = "json" THEN f.data ELSE <<>>

\* writeData: the file after fs.writeFile; a failed write leaves it as it was
writeData(f, data, ok) == IF ok THEN [kind |-> "json", data |-> data] ELSE f

imageOf(u, n) == IF u.present THEN uploadPath(n) ELSE Null

\* server.js POST: dateReported and lastUpdated are two readings of the clock
newAnimal(id, b, u, n, t1, t2) ==
    [id |-> id, type |-> b.type, status |-> b.status, location |-> b.location,
     description |-> b.description, breed |-> OrElse(b.breed, EmptyString),
     color |-> OrElse(b.color, EmptyString), size |-> OrElse(b.size, EmptyString),
     age |-> OrElse(b.age, EmptyString), contactName |-> b.contactName,
     contactPhone |-> b.contactPhone, contactEmail |-> b.contactEmail,
     image |-> imageOf(u, n), dateReported |-> t1, lastUpdated |-> t2]

\* part_000 POST: no age and no lastUpdated property; photo is held in image
newAnimalPart(id, b, u, n, t1, t2) ==
    [id |-> id, type |-> b.type, breed |-> OrElse(b.breed, EmptyString),
     color |-> b.color, size |-> b.size, location |-> b.location,
     description |-> OrElse(b.description, EmptyString),
     contactName |-> b.contactName, contactPhone |-> b.contactPhone,
     contactEmail |-> b.contactEmail, status |-> OrElse(b.status, <<"found">>),
     dateReported |-> t1, image |-> imageOf(u, n),
     age |-> Undefined, lastUpdated |-> NoTime]

\* server.js PUT: the stored record spread, then the body's fields over it
updatedAnimal(old, b, u, n, t) ==
    [old EXCEPT !.type = b.type, !.status = b.status, !.location = b.location,
                !.description = b.description,
                !.breed = OrElse(b.breed, EmptyString),
                !.color = OrElse(b.color, EmptyString),
                !.size = OrElse(b.size, EmptyString),
                !.age = OrElse(b.age, EmptyString),
                !.contactName = b.contactName, !.contactPhone = b.contactPhone,
                !.contactEmail = b.contactEmail, !.lastUpdated = t,
                !.image = IF u.present THEN uploadPath(n) ELSE @]

\* part_000 PUT
updatedAnimalPart(old, b, u, n, t) ==
    [old EXCEPT !.type = b.type, !.breed = OrElse(b.breed, EmptyString),
                !.color = b.color, !.size = b.size, !.location = b.location,
                !.description = OrElse(b.description, EmptyString),
                !.contactName = b.contactName, !.contactPhone = b.contactPhone,
                !.contactEmail = b.contactEmail,
                !.status = OrElse(b.status, old.status), !.lastUpdated = t,
                !.image = IF u.present THEN uploadPath(n) ELSE @]

\* animals.findIndex(a => a.id === id): the first index, 0 for -1
findIndex(animals, id) ==
    IF \E i \in 1..Len(animals) : animals[i].id = id
    THEN CHOOSE i \in 1..Len(animals) :
            /\ animals[i].id = id
            /\ \A j \in 1..(i - 1) : animals[j].id # id
    ELSE 0

(***************************************************************************)
(* GET /api/animals: the filters, and part_000's sort                      *)
(***************************************************************************)
NoQuery ==
    [type |-> Undefined, status |-> Undefined, location |-> Undefined,
     search |-> Undefined]

byType(animals, q) ==
    LET Test(a) == a.type = q.type IN
    IF Truthy(q.type) THEN SelectSeq(animals, Test) ELSE animals

byStatus(animals, q) ==
    LET Test(a) == a.status = q.status IN
    IF Truthy(q.status) THEN SelectSeq(animals, Test) ELSE animals

byLocation(animals, q) ==
    LET Test(a) == includes(toLowerCase(a.location), toLowerCase(q.location)) IN
    IF Truthy(q.location) THEN SelectSeq(animals, Test) ELSE animals

\* x?.toLowerCase().includes(term): undefined (falsy) when x is undefined or null
optIncludes(x, term) ==
    x # Undefined /\ x # Null /\ includes(toLowerCase(x), term)

bySearch(animals, q) ==
    LET searchTerm == toLowerCase(q.search)
        Test(a) ==
            \/ optIncludes(a.breed, searchTerm)
            \/ includes(toLowerCase(a.color), searchTerm)
            \/ optIncludes(a.description, searchTerm)
            \/ includes(toLowerCase(a.location), searchTerm)
    IN IF Truthy(q.search) THEN SelectSeq(animals, Test) ELSE animals

\* animals.sort((a, b) => new Date(b.dateReported) - new Date(a.dateReported)):
\* a stable sort, newest first
RECURSIVE insertNewestFirst(_, _)
insertNewestFirst(sorted, a) ==
    IF sorted = <<>> THEN <<a>>
    ELSE IF Head(sorted).dateReported >= a.dateReported
         THEN <<Head(sorted)>> \o insertNewestFirst(Tail(sorted), a)
         ELSE <<a>> \o sorted

RECURSIVE sortNewestFirst(_)
sortNewestFirst(animals) ==
    IF animals = <<>> THEN <<>>
    ELSE insertNewestFirst(sortNewestFirst(SubSeq(animals, 1, Len(animals) - 1)),
                           animals[Len(animals)])

\* server.js: type, status and location only; the stored order is kept
filteredAnimals(animals, q) == byLocation(byStatus(byType(animals, q), q), q)

\* part_000: search as well, then the sort
filteredAnimalsPart(animals, q) ==
    sortNewestFirst(bySearch(byLocation(byStatus(byType(animals, q), q), q), q))

(***************************************************************************)
(* GET /api/stats: the counts and the recent reports                       *)
(***************************************************************************)
RecentLimit == 5      \* .slice(0, 5)

\* animals.slice(0, k)
slice(animals, k) == SubSeq(animals, 1, IF Len(animals) < k THEN Len(animals) ELSE k)

\* animals.filter(a => a.type === w).length
countType(animals, w) ==
    LET Test(a) == a.type = w IN Len(SelectSeq(animals, Test))

\* animals.filter(a => a.status === w).length
countStatus(animals, w) ==
    LET Test(a) == a.status = w IN Len(SelectSeq(animals, Test))

\* recentReports with the sort left out: the first records as they are stored
recentReportsUnsorted(animals) == slice(animals, RecentLimit)

\* animals.sort(newest first).slice(0, 5)
recentReports(animals) == slice(sortNewestFirst(animals), RecentLimit)

\* part_000: the .map(...) over the recent reports
summaryOf(animal) ==
    [id |-> animal.id, type |-> animal.type, location |-> animal.location,
     dateReported |-> animal.dateReported, status |-> animal.status]

\* server.js: the stats object
stats(animals) ==
    [total |-> Len(animals),
     byType |-> [w \in TypeWords |-> countType(animals, w)],
     byStatus |-> [w \in StatusWords |-> countStatus(animals, w)],
     recentReports |-> recentReports(animals)]

\* part_000: the stats object
statsPart(animals) ==
    LET recent == recentReports(animals) IN
    [total |-> Len(animals),
     byType |-> [w \in TypeWords |-> countType(animals, w)],
     byStatus |-> [w \in StatusWordsPart |-> countStatus(animals, w)],
     recentReports |-> [i \in 1..Len(recent) |-> summaryOf(recent[i])]]

(***************************************************************************)
(* The requests the model sends                                            *)
(***************************************************************************)
NoBody == [f \in Fields |-> Undefined]

BodyA ==
    [type |-> <<"dog">>, status |-> <<"found">>, location |-> <<"P", "a">>,
     description |-> <<"b">>, breed |-> Undefined, color |-> <<"B">>,
     size |-> <<"small">>, age |-> Undefined, contactName |-> <<"n">>,
     contactPhone |-> <<"1">>, contactEmail |-> <<"a", "@", "b">>]

BodyB ==
    [type |-> <<"cat">>, status |-> <<"lost">>, location |-> <<"a", "b">>,
     description |-> <<"a">>, breed |-> <<"p">>, color |-> <<"a">>,
     size |-> <<"large">>, age |-> <<"2">>, contactName |-> <<"n">>,
     contactPhone |-> <<"+", "1">>, contactEmail |-> <<"b", "@", "a">>]

\* no status: against the rules of server.js, within those of part_000
BodyNoStatus == [BodyA EXCEPT !.status = Undefined, !.location = <<" ", "b">>]

\* no contactEmail: against the rules of both
BodyNoEmail == [BodyA EXCEPT !.contactEmail = Undefined]

Bodies == {BodyA, BodyB, BodyNoStatus, BodyNoEmail}

\* bodies with a status that only one of the two programs accepts
BodyRescued == [BodyA EXCEPT !.type = <<"other">>, !.status = <<"rescued">>]

BodyAdopted == [BodyB EXCEPT !.type = <<"other">>, !.status = <<"adopted">>]

Uploads == {NoFile, Png, PngLarge, Pdf}

MaxIds == 2           \* ids a request can name: Uuid(1) .. Uuid(MaxIds)

Ids == {Uuid(k) : k \in 1..MaxIds}

Queries ==
    {NoQuery,
     [NoQuery EXCEPT !.type = <<"dog">>],
     [NoQuery EXCEPT !.location = <<"A">>, !.status = <<"lost">>],
     [NoQuery EXCEPT !.search = <<"P", "a">>]}

Request(op, id, b, u, q) == [op |-> op, id |-> id, body |-> b, upload |-> u, query |-> q]

Requests ==
    {Request("POST", Null, b, u, NoQuery) : b \in Bodies, u \in Uploads}
    \union {Request("PUT", Uuid(k), b, u, NoQuery) :
                k \in 1..MaxIds, b \in Bodies, u \in Uploads}
    \union {Request("LIST", Null, NoBody, NoFile, q) : q \in Queries}
    \union {Request("GET", id, NoBody, NoFile, NoQuery) : id \in Ids}
    \union {Request("STATS", Null, NoBody, NoFile, NoQuery)}

\* the requests of "few" traffic
FewRequests ==
    {Request("POST", Null, BodyA, NoFile, NoQuery),
     Request("POST", Null, BodyB, Png, NoQuery),
     Request("POST", Null, BodyNoEmail, NoFile, NoQuery),
     Request("PUT", Uuid(1), BodyB, NoFile, NoQuery),
     Request("PUT", Uuid(1), BodyA, Png, NoQuery),
     Request("PUT", Uuid(2), BodyA, NoFile, NoQuery),
     Request("LIST", Null, NoBody, NoFile, NoQuery),
     Request("GET", Uuid(1), NoBody, NoFile, NoQuery)}

\* the requests of "stats" traffic
StatsRequests == {Request("STATS", Null, NoBody, NoFile, NoQuery)}

RequestsOf(tr) ==
    CASE tr = "few" -> FewRequests
      [] tr = "wide" -> Requests
      [] tr = "stats" -> StatsRequests

\* "stats" traffic is one request over a collection of any stored length
BudgetOf(tr) ==
    CASE tr = "few" -> MaxRequests
      [] tr = "wide" -> MaxWideRequests
      [] tr = "stats" -> 1

IsWrite(op) == op \in {"POST", "PUT"}

(***************************************************************************)
(* A request in a slot.  pc is the handler's position:                     *)
(*   "read"   awaiting readData     "loaded"  readData has returned        *)
(*   "write"  awaiting writeData    "done"    the response has been sent   *)
(* n is the request's number; sawBad records that readData swallowed an    *)
(* error of an unreadable file; wrote is how writeData ended ("ok", or     *)
(* "failed": it threw, or returned false); met holds the numbers of the    *)
(* requests that were in flight together with this one.  A number that is  *)
(* not there is NoNumber.                                                  *)
(***************************************************************************)
NoNumber == -1

Idle ==
    [pc |-> "idle", op |-> "", id |-> Null, body |-> NoBody, upload |-> NoFile,
     query |-> NoQuery, n |-> 0, animals |-> <<>>, sawBad |-> FALSE,
     wrote |-> "", met |-> {},
     status |-> 0, errors |-> {}, data |-> Null, total |-> NoNumber,
     count |-> NoNumber]

\* res.status(st).json(...): the response is sent, the handler is over
Respond(r, st, data) ==
    [r EXCEPT !.pc = "done", !.status = st, !.data = data, !.animals = <<>>]

\* Received without the check of validationResult(req)
ReceivedUnchecked(v, n, req) ==
    LET r == [Idle EXCEPT !.op = req.op, !.id = req.id, !.body = req.body,
                          !.upload = req.upload, !.query = req.query, !.n = n]
        up == uploadSingle(v, req.upload)
    IN IF ~IsWrite(req.op) THEN [r EXCEPT !.pc = "read"]
       ELSE IF up # "ok" THEN Respond(r, errorMiddleware(up), Null)
       ELSE [r EXCEPT !.pc = "read"]

\* upload.single, the validation chain and validationResult(req)
Received(v, n, req) ==
    LET r == [Idle EXCEPT !.op = req.op, !.id = req.id, !.body = req.body,
                          !.upload = req.upload, !.query = req.query, !.n = n]
        up == uploadSingle(v, req.upload)
        errs == ValidationErrors(v, req.body)
    IN IF ~IsWrite(req.op) THEN [r EXCEPT !.pc = "read"]
       ELSE IF up # "ok" THEN Respond(r, errorMiddleware(up), Null)
       ELSE IF errs # {} THEN [Respond(r, 400, Null) EXCEPT !.errors = errs]
       ELSE [r EXCEPT !.pc = "read"]

\* const animals = await readData()
Loaded(r, f) ==
    [r EXCEPT !.pc = "loaded", !.animals = readData(f), !.sawBad = (f.kind = "corrupt")]

\* GET /api/animals
getAnimals(v, r) ==
    LET out == IF v = "server" THEN filteredAnimals(r.animals, r.query)
               ELSE filteredAnimalsPart(r.animals, r.query)
    IN [Respond(r, 200, out) EXCEPT
            !.total = IF v = "server" THEN Len(out) ELSE NoNumber,
            !.count = IF v = "server" THEN NoNumber ELSE Len(out)]

\* GET /api/stats
getStats(v, r) ==
    Respond(r, 200, IF v = "server" THEN stats(r.animals) ELSE statsPart(r.animals))

\* GET /api/animals/:id
getAnimal(r) ==
    LET i == findIndex(r.animals, r.id) IN
    IF i = 0 THEN Respond(r, 404, Null) ELSE Respond(r, 200, r.animals[i])

\* POST /api/animals, from readData's return to the call of writeData
postAnimal(v, r, id, t1, t2) ==
    LET b == BodySeen(v, r.body)
        a == IF v = "server" THEN newAnimal(id, b, r.upload, r.n, t1, t2)
             ELSE newAnimalPart(id, b, r.upload, r.n, t1, t2)
    IN [r EXCEPT !.pc = "write", !.animals = Append(@, a), !.data = a]

\* putAnimal without the check of animalIndex === -1: the record is added
putAnimalUpsert(v, r, t) ==
    LET b == BodySeen(v, r.body)
        animalIndex == findIndex(r.animals, r.id)
        a == IF animalIndex = 0
             THEN [newAnimal(r.id, b, r.upload, r.n, t, t) EXCEPT !.id = r.id]
             ELSE IF v = "server"
             THEN updatedAnimal(r.animals[animalIndex], b, r.upload, r.n, t)
             ELSE updatedAnimalPart(r.animals[animalIndex], b, r.upload, r.n, t)
    IN IF animalIndex = 0
       THEN [r EXCEPT !.pc = "write", !.animals = Append(@, a), !.data = a]
       ELSE [r EXCEPT !.pc = "write", !.animals[animalIndex] = a, !.data = a]

\* PUT /api/animals/:id, from readData's return to the call of writeData
putAnimal(v, r, t) ==
    LET b == BodySeen(v, r.body)
        animalIndex == findIndex(r.animals, r.id)
        a == IF v = "server"
             THEN updatedAnimal(r.animals[animalIndex], b, r.upload, r.n, t)
             ELSE updatedAnimalPart(r.animals[animalIndex], b, r.upload, r.n, t)
    IN IF animalIndex = 0 THEN Respond(r, 404, Null)
       ELSE [r EXCEPT !.pc = "write", !.animals[animalIndex] = a, !.data = a]

Handled(v, r, id, t1, t2) ==
    CASE r.op = "LIST" -> getAnimals(v, r)
      [] r.op = "GET" -> getAnimal(r)
      [] r.op = "POST" -> postAnimal(v, r, id, t1, t2)
      [] r.op = "PUT" -> putAnimal(v, r, t1)
      [] r.op = "STATS" -> getStats(v, r)

\* Written without a look at how writeData ended
WrittenAnyway(r, ok) ==
    [Respond(r, IF r.op = "POST" THEN 201 ELSE 200, r.data)
        EXCEPT !.wrote = IF ok THEN "ok" ELSE "failed"]

\* the response once writeData has returned or thrown
Written(r, ok) ==
    IF ok THEN [Respond(r, IF r.op = "POST" THEN 201 ELSE 200, r.data)
                   EXCEPT !.wrote = "ok"]
    ELSE [Respond(r, 500, Null) EXCEPT !.wrote = "failed"]

(***************************************************************************)
(* The state machine                                                       *)
(***************************************************************************)
\* new Date(): the clock has stayed or has moved on by a millisecond
ClockReads(t) == {u \in {t, t + 1} : u <= MaxClock}

\* the clock after a handler has built its record
ClockAfter(v, r, t1, t2) ==
    IF r.pc # "write" THEN now
    ELSE IF v = "server" /\ r.op = "POST" THEN t2
    ELSE t1

IssuedAfter(r) == IF r.pc = "write" /\ r.op = "POST" THEN issued + 1 ELSE issued

\* initializeData has written [] to the data file; no request yet
Init ==
    /\ variant \in Variants
    /\ traffic \in Traffics
    /\ file = [kind |-> "json", data |-> <<>>]
    /\ now = 1
    /\ issued = 0
    /\ nreq = 0
    /\ faults = 0
    /\ slot = [s \in Slots |-> Idle]

Free(s) == slot[s].pc \in {"idle", "done"}

InFlight(s) == ~Free(s)

\* a request takes the first slot that is free
Takes(s) == Free(s) /\ \A s2 \in Slots : s2 < s => ~Free(s2)

\* server.js: a request arrives and runs up to its await of readData
Receive(s) ==
    /\ variant = "server"
    /\ nreq < BudgetOf(traffic)
    /\ Takes(s)
    /\ \E req \in RequestsOf(traffic) :
          LET r == Received(variant, nreq + 1, req)
              others == {o \in Slots : InFlight(o) /\ r.pc = "read"}
          IN slot' = [o \in Slots |->
                        IF o = s THEN [r EXCEPT !.met = {slot[x].n : x \in others}]
                        ELSE IF o \in others
                             THEN [slot[o] EXCEPT !.met = @ \union {nreq + 1}]
                        ELSE slot[o]]
    /\ nreq' = nreq + 1
    /\ UNCHANGED <<variant, traffic, file, now, issued, faults>>

\* server.js: fs.readFile takes place
ReadData(s) ==
    /\ variant = "server"
    /\ slot[s].pc = "read"
    /\ slot' = [slot EXCEPT ![s] = Loaded(slot[s], file)]
    /\ UNCHANGED <<variant, traffic, file, now, issued, nreq, faults>>

\* server.js: the handler resumes and runs to its response or to its await
\* of writeData
Handle(s) ==
    /\ variant = "server"
    /\ slot[s].pc = "loaded"
    /\ \E t1 \in ClockReads(now) : \E t2 \in ClockReads(t1) :
          LET r == Handled(variant, slot[s], Uuid(issued + 1), t1, t2) IN
          /\ slot' = [slot EXCEPT ![s] = r]
          /\ now' = ClockAfter(variant, r, t1, t2)
          /\ issued' = IssuedAfter(r)
    /\ UNCHANGED <<variant, traffic, file, nreq, faults>>

\* server.js: fs.writeFile takes place or fails, and the handler answers
WriteData(s) ==
    /\ variant = "server"
    /\ slot[s].pc = "write"
    /\ \E ok \in BOOLEAN :
          /\ file' = writeData(file, slot[s].animals, ok)
          /\ slot' = [slot EXCEPT ![s] = Written(slot[s], ok)]
    /\ UNCHANGED <<variant, traffic, now, issued, nreq, faults>>

\* part_000: the file calls are synchronous, the handler runs in one piece
ReceivePart(s) ==
    /\ variant = "part000"
    /\ nreq < BudgetOf(traffic)
    /\ Takes(s)
    /\ \E req \in RequestsOf(traffic) : \E t1 \in ClockReads(now) : \E ok \in BOOLEAN :
          LET r0 == Received(variant, nreq + 1, req)
              r == IF r0.pc = "done" THEN r0
                   ELSE Handled(variant, Loaded(r0, file), Uuid(issued + 1), t1, t1)
          IN /\ slot' = [slot EXCEPT ![s] = IF r.pc = "write" THEN Written(r, ok) ELSE r]
             /\ file' = IF r.pc = "write" THEN writeData(file, r.animals, ok) ELSE file
             /\ now' = ClockAfter(variant, r, t1, t1)
             /\ issued' = IssuedAfter(r)
    /\ nreq' = nreq + 1
    /\ UNCHANGED <<variant, traffic, faults>>

\* outside the program: the data file is damaged or removed, between requests
Damage ==
    /\ faults < MaxFaults
    /\ \A s \in Slots : Free(s)
    /\ file.kind = "json"
    /\ \/ file' = [file EXCEPT !.kind = "corrupt"]
       \/ file' = [kind |-> "missing", data |-> <<>>]
    /\ faults' = faults + 1
    /\ UNCHANGED <<variant, traffic, now, issued, nreq, slot>>

Next ==
    \/ \E s \in Slots : Receive(s)
    \/ \E s \in Slots : ReadData(s)
    \/ \E s \in Slots : Handle(s)
    \/ \E s \in Slots : WriteData(s)
    \/ \E s \in Slots : ReceivePart(s)
    \/ Damage

Spec == Init /\ [][Next]_vars

(***************************************************************************)
(* GET /api/stats over a stored collection of any length up to MaxStored.  *)
(* The collection is one that POSTs have left in the file: every record    *)
(* is made by the POST handler from a body its validation accepts, the     *)
(* ids are the ids issued so far, and the records stand in the order they  *)
(* were appended, so dateReported never decreases along the file.          *)
(***************************************************************************)
MaxStored == 6

\* the bodies a POST of this program accepts
StoredBodies(v) ==
    {b \in {BodyA, BodyB, BodyRescued, BodyAdopted} : ValidationErrors(v, b) = {}}

\* the record the POST handler appended as the i-th, at time t
StoredAnimal(v, i, b, t) ==
    IF v = "server" THEN newAnimal(Uuid(i), BodySeen(v, b), NoFile, i, t, t)
    ELSE newAnimalPart(Uuid(i), BodySeen(v, b), NoFile, i, t, t)

\* the times of n POSTs one after the other
Stamps(n) ==
    {d \in [1..n -> 1..MaxClock] : \A i \in 1..n : \A j \in i..n : d[i] <= d[j]}

InitStats ==
    /\ variant \in Variants
    /\ traffic = "stats"
    /\ \E n \in 0..MaxStored : \E d \in Stamps(n) :
          \E b \in [1..n -> StoredBodies(variant)] :
             /\ file = [kind |-> "json",
                        data |-> [i \in 1..n |-> StoredAnimal(variant, i, b[i], d[i])]]
             /\ now = IF n = 0 THEN 1 ELSE d[n]
             /\ issued = n
    /\ nreq = 0
    /\ faults = 0
    /\ slot = [s \in Slots |-> Idle]

\* a GET writes nothing, and the file is taken as it stands
NextStats ==
    \/ \E s \in Slots : Receive(s)
    \/ \E s \in Slots : ReadData(s)
    \/ \E s \in Slots : Handle(s)
    \/ \E s \in Slots : ReceivePart(s)

SpecStats == InitStats /\ [][NextStats]_vars

(***************************************************************************)
(* Vocabulary of the properties                                            *)
(***************************************************************************)
IdsIn(animals) == {animals[i].id : i \in 1..Len(animals)}

Done(s) == slot[s].pc = "done"

Succeeded(r) == r.status \in {200, 201}

\* slot s sends its response in this step
Answers(s) == slot'[s].pc = "done" /\ (slot[s].pc # "done" \/ slot'[s].n # slot[s].n)

\* slot s takes a new request in this step
Arrives(s) == slot'[s].n = nreq + 1 /\ nreq' = nreq + 1

\* the collection the handler of slot s works on when it resumes after readData
\* (server.js), or reads as it runs (part_000)
LoadedBy(s) == IF variant = "server" THEN slot[s].animals ELSE readData(file)

UploadAccepted(r) == uploadSingle(variant, r.upload) = "ok"

BodyValid(r) == ValidationErrors(variant, r.body) = {}

\* the handler of slot s runs its part after readData in this step
Resumes(s) ==
    IF variant = "server" THEN slot[s].pc = "loaded" /\ slot'[s].pc # "loaded"
    ELSE /\ Arrives(s)
         /\ IsWrite(slot'[s].op) => UploadAccepted(slot'[s]) /\ BodyValid(slot'[s])

(***************************************************************************)
(* C1: two write requests (POST or PUT) that were in flight together and   *)
(* were both answered with success have both left their effect in the      *)
(* persisted collection once both are over: the created record is there,   *)
(* the updated record is there as it was answered (unless the other        *)
(* request updated the same record).                                       *)
(***************************************************************************)
EffectKept(s, o) ==
    IF slot[s].op = "POST" THEN slot[s].data.id \in IdsIn(file.data)
    ELSE \/ \E i \in 1..Len(file.data) : file.data[i] = slot[s].data
         \/ slot[o].id = slot[s].id

C1_NoLostUpdate ==
    \A s, o \in Slots :
        (/\ s # o
         /\ Done(s) /\ Done(o)
         /\ IsWrite(slot[s].op) /\ IsWrite(slot[o].op)
         /\ Succeeded(slot[s]) /\ Succeeded(slot[o])
         /\ slot[o].n \in slot[s].met
         /\ faults = 0)
        => EffectKept(s, o)

(***************************************************************************)
(* C2 as stated: a write request whose body violates a validation rule is  *)
(* answered 400 with the list of the violations, and the persisted         *)
(* collection is the same before and after it.                             *)
(***************************************************************************)
C2_InvalidWriteIs400 ==
    [][\A s \in Slots :
          (Arrives(s) /\ IsWrite(slot'[s].op) /\ ~BodyValid(slot'[s]))
          => /\ slot'[s].pc = "done"
             /\ slot'[s].status = 400
             /\ slot'[s].errors # {}
             /\ file' = file]_vars

(***************************************************************************)
(* C2 amended: a write request whose body violates a validation rule       *)
(* changes nothing in the persisted collection and is over at once; when   *)
(* its upload is absent or accepted it is answered 400 with the list of    *)
(* the violated rules (a rejected upload is answered before validation).   *)
(***************************************************************************)
C2_InvalidWriteRejected ==
    [][\A s \in Slots :
          (Arrives(s) /\ IsWrite(slot'[s].op) /\ ~BodyValid(slot'[s]))
          => /\ slot'[s].pc = "done"
             /\ file' = file
             /\ slot'[s].wrote = ""
             /\ UploadAccepted(slot'[s])
                   => /\ slot'[s].status = 400
                      /\ slot'[s].errors = ValidationErrors(variant, slot'[s].body)
                      /\ slot'[s].errors # {}]_vars

C2_Witness ==
    \E s \in Slots :
        /\ Done(s) /\ IsWrite(slot[s].op)
        /\ ~BodyValid(slot[s]) /\ UploadAccepted(slot[s])
        /\ slot[s].status = 400
        /\ "contactEmail" \in slot[s].errors
        /\ file.kind = "json" /\ file.data # <<>>

(***************************************************************************)
(* C3 as stated: a PUT whose id is not in the persisted collection is      *)
(* answered 404, whatever its body, and leaves the collection as it was.   *)
(***************************************************************************)
C3_UnknownIdIs404 ==
    [][\A s \in Slots :
          (/\ Answers(s)
           /\ slot'[s].op = "PUT"
           /\ slot'[s].id \notin IdsIn(readData(file)))
          => slot'[s].status = 404 /\ file' = file]_vars

(***************************************************************************)
(* C3 amended: a PUT whose upload is absent or accepted and whose body     *)
(* passes validation, and whose id is not in the collection its handler    *)
(* loaded, is answered 404 and leaves the persisted collection as it was.  *)
(***************************************************************************)
C3_UnknownIdValidIs404 ==
    [][\A s \in Slots :
          (/\ Resumes(s)
           /\ slot'[s].op = "PUT"
           /\ UploadAccepted(slot'[s]) /\ BodyValid(slot'[s])
           /\ slot'[s].id \notin IdsIn(LoadedBy(s)))
          => /\ slot'[s].pc = "done"
             /\ slot'[s].status = 404
             /\ slot'[s].wrote = ""
             /\ file' = file]_vars

C3_Witness ==
    \E s \in Slots :
        /\ Done(s) /\ slot[s].op = "PUT"
        /\ UploadAccepted(slot[s]) /\ BodyValid(slot[s])
        /\ slot[s].status = 404
        /\ file.kind = "json" /\ file.data # <<>>
        /\ slot[s].id \notin IdsIn(file.data)

(***************************************************************************)
(* C4: a request that loads the data file while it is unreadable or        *)
(* corrupt is answered 500 and writes nothing to it.                       *)
(***************************************************************************)
C4_UnreadableIs500 ==
    \A s \in Slots :
        (Done(s) /\ slot[s].sawBad) => slot[s].status = 500 /\ slot[s].wrote # "ok"

C6_NeverDeleted ==
    [][(file.kind = "json" /\ file'.kind = "json")
          => /\ IdsIn(file.data) \subseteq IdsIn(file'.data)
             /\ Len(file'.data) >= Len(file.data)]_vars

(***************************************************************************)
(* C7: the record a successful POST answers with has a non-empty id that   *)
(* no other answered or stored record has, ids are unique in the           *)
(* collection, and its dateReported equals its lastUpdated.                *)
(***************************************************************************)
C7_FreshIdEqualStamps ==
    /\ \A s \in Slots :
          (Done(s) /\ slot[s].op = "POST" /\ slot[s].status = 201)
          => /\ slot[s].data.id # EmptyString
             /\ \A o \in Slots \ {s} :
                   (Done(o) /\ slot[o].op = "POST" /\ slot[o].status = 201)
                   => slot[o].data.id # slot[s].data.id
             /\ slot[s].data.dateReported = slot[s].data.lastUpdated
    /\ \A i, j \in 1..Len(file.data) : i # j => file.data[i].id # file.data[j].id

(***************************************************************************)
(* C8: after a successful PUT the persisted lastUpdated of the record is   *)
(* at least its dateReported and at least the lastUpdated that was         *)
(* persisted for that record before.                                       *)
(***************************************************************************)
C8_StampsMonotonic ==
    [][\A s \in Slots :
          (Answers(s) /\ slot'[s].op = "PUT" /\ slot'[s].wrote = "ok")
          => LET a == slot'[s].data IN
             /\ a.lastUpdated >= a.dateReported
             /\ \A i \in 1..Len(file.data) :
                   file.data[i].id = a.id
                   => a.lastUpdated >= file.data[i].lastUpdated]_vars

(***************************************************************************)
(* C9: a successful PUT changes the targeted record only: the collection   *)
(* keeps its length and order, every other record is as it was, and the    *)
(* targeted record keeps its id and dateReported and keeps its image       *)
(* unless the request carried an upload.                                   *)
(***************************************************************************)
C9_OnlyTargetChanges ==
    [][\A s \in Slots :
          (Answers(s) /\ slot'[s].op = "PUT" /\ slot'[s].wrote = "ok")
          => /\ Len(file'.data) = Len(file.data)
             /\ \A i \in 1..Len(file.data) :
                   IF file.data[i].id # slot'[s].id
                   THEN file'.data[i] = file.data[i]
                   ELSE /\ file'.data[i].id = file.data[i].id
                        /\ file'.data[i].dateReported = file.data[i].dateReported
                        /\ file'.data[i].image =
                              IF slot'[s].upload.present
                              THEN uploadPath(slot'[s].n)
                              ELSE file.data[i].image]_vars

(***************************************************************************)
(* C10: GET /animals answers with exactly the loaded records that meet     *)
(* every criterion supplied (type, status, location, search), in their     *)
(* stored order, and with a total equal to their number.                   *)
(***************************************************************************)
Meets(a, q) ==
    /\ Truthy(q.type) => a.type = q.type
    /\ Truthy(q.status) => a.status = q.status
    /\ Truthy(q.location)
          => includes(toLowerCase(a.location), toLowerCase(q.location))
    /\ Truthy(q.search)
          => \E f \in {"breed", "color", "description", "location"} :
                includes(toLowerCase(Str(a[f])), toLowerCase(q.search))

Matching(animals, q) == LET Test(a) == Meets(a, q) IN SelectSeq(animals, Test)

C10_ListIsFilter ==
    [][\A s \in Slots :
          (Resumes(s) /\ slot'[s].op = "LIST")
          => /\ slot'[s].status = 200
             /\ slot'[s].data = Matching(LoadedBy(s), slot'[s].query)
             /\ slot'[s].total = Len(slot'[s].data)]_vars


(***************************************************************************)
(* C11  GET /api/stats answers 200 with total the number of records that   *)
(* it loaded, with byType and byStatus holding, for every value of the     *)
(* enumeration, the number of records with that value, so that each set    *)
(* of counts sums to total, and with the recent reports being the at most  *)
(* 5 records with the latest dateReported, latest first; over an empty     *)
(* collection total and all counts are 0 and the recent reports are        *)
(* empty; and the request leaves the data file as it is.                   *)
(***************************************************************************)
RECURSIVE SumOver(_, _)
SumOver(f, S) ==
    IF S = {} THEN 0
    ELSE LET w == CHOOSE x \in S : TRUE IN f[w] + SumOver(f, S \ {w})

\* a record as the recent reports may show it: whole, or the summary fields
ShownAs(a, shown) ==
    /\ DOMAIN shown \subseteq DOMAIN a
    /\ {"id", "type", "location", "dateReported", "status"} \subseteq DOMAIN shown
    /\ \A f \in DOMAIN shown : shown[f] = a[f]

StatsOf(animals, d) ==
    LET recent == d.recentReports
        Enum == IF variant = "server" THEN StatusWords ELSE StatusWordsPart
        In(i) == \E k \in 1..Len(recent) : recent[k].id = animals[i].id
    IN /\ d.total = Len(animals)
       /\ DOMAIN d.byType = TypeWords
       /\ DOMAIN d.byStatus = Enum
       /\ \A w \in TypeWords :
             d.byType[w] = Cardinality({i \in 1..Len(animals) : animals[i].type = w})
       /\ \A w \in Enum :
             d.byStatus[w] = Cardinality({i \in 1..Len(animals) : animals[i].status = w})
       /\ SumOver(d.byType, TypeWords) = d.total
       /\ SumOver(d.byStatus, Enum) = d.total
       /\ Len(recent) = IF Len(animals) < 5 THEN Len(animals) ELSE 5
       /\ \A i, j \in 1..Len(recent) :
             i < j => /\ recent[i].dateReported >= recent[j].dateReported
                      /\ recent[i].id # recent[j].id
       /\ \A k \in 1..Len(recent) :
             \E i \in 1..Len(animals) : ShownAs(animals[i], recent[k])
       /\ \A i \in 1..Len(animals) : \A k \in 1..Len(recent) :
             ~In(i) => animals[i].dateReported <= recent[k].dateReported
       /\ animals = <<>> =>
             /\ d.total = 0
             /\ recent = <<>>
             /\ \A w \in TypeWords : d.byType[w] = 0
             /\ \A w \in Enum : d.byStatus[w] = 0

C11_StatsCorrect ==
    [][\A s \in Slots :
          /\ (Resumes(s) /\ slot'[s].op = "STATS") =>
                /\ slot'[s].pc = "done"
                /\ slot'[s].status = 200
                /\ slot'[s].wrote = ""
                /\ StatsOf(LoadedBy(s), slot'[s].data)
          /\ (slot'[s].op = "STATS" /\ slot'[s].pc # slot[s].pc) => file' = file]_vars

\* answered over more than 5 records: 5 are shown, of different times, and
\* an older record of the file is left out
C11_Witness ==
    \E s \in Slots :
        /\ Done(s)
        /\ slot[s].op = "STATS"
        /\ slot[s].status = 200
        /\ slot[s].data.total > 5
        /\ Len(slot[s].data.recentReports) = 5
        /\ slot[s].data.recentReports[1].dateReported
              > slot[s].data.recentReports[5].dateReported
        /\ \E i \in 1..Len(file.data) :
              /\ file.data[i].dateReported < slot[s].data.recentReports[5].dateReported
              /\ \A k \in 1..5 : slot[s].data.recentReports[k].id # file.data[i].id

(***************************************************************************)
(* C12  Every POST or PUT whose upload is rejected, for its size or for    *)
(* its type, is answered 400 and not 500, and writeData is never called    *)
(* for it, so that it adds or changes no record.                           *)
(***************************************************************************)
C12_RejectedUploadIs400 ==
    \A s \in Slots :
        (Done(s) /\ IsWrite(slot[s].op) /\ ~UploadAccepted(slot[s])) =>
            /\ slot[s].status = 400
            /\ slot[s].wrote = ""


====
